---- MODULE Spec2Model ----
(***************************************************************************)
(* Resource-selection engine of the control plane: the policy stage        *)
(* libraries of core/scheduling/mod.rs (filters and sorters of the five    *)
(* decision points), the resource state cache of core/states.rs, the       *)
(* NvmfControllerIdRange constructor of transport/nexus.rs and the pool    *)
(* operations of the node client of io_engine/v0/pool.rs.                  *)
(*                                                                         *)
(* Each decision point has its own specification over the shared           *)
(* variables; a specification leaves the variables of the others at Null.  *)
(***************************************************************************)
EXTENDS Integers, Sequences, FiniteSets, TLC

VARIABLES
    \* ---- filter/sort pipeline over one candidate and one competitor ----
    request,    \* the pipeline's Request (context of the scheduling call)
    a,          \* the candidate item followed through the pipeline
    b,          \* the item the candidate was last compared with by a sorter
    c,          \* a third item, for comparisons over three items
    kept,       \* whether the candidate is still in the candidate list
    applied,    \* names of the stages applied so far
    ord,        \* result of the last comparator call on (a, b)
    \* ---- resource state cache ----
    nexuses,    \* ResourceStates.nexuses : id -> state
    pools,      \* ResourceStates.pools
    replicas,   \* ResourceStates.replicas
    lock,       \* the RwLock around ResourceStates
    writer,     \* the writer thread: the call it is in and its position
    readers,    \* the reader threads: the call each is in and what it got
    latest,     \* per class, the list passed to the most recent update
    \* ---- NvmfControllerIdRange ----
    range,      \* the last constructor call and its outcome
    \* ---- node client, pool operations ----
    rpc,        \* the last pool operation: its request, the gRPC reply, its result
    \* ---- ResourceFilter pipeline object ----
    pipe        \* the pipeline: its implementor, its list and whether it panicked

schedVars == <<request, a, b, c, kept, applied, ord>>
apiVars == <<rpc, pipe>>
cacheVars == <<nexuses, pools, replicas, lock, writer, readers, latest>>
vars == <<request, a, b, c, kept, applied, ord,
          nexuses, pools, replicas, lock, writer, readers, latest, range,
          rpc, pipe>>

Null == "null"

\* std::cmp::Ordering
Less == "Less"
Equal == "Equal"
Greater == "Greater"
Ordering == {Less, Equal, Greater}

\* Ordering::reverse
Reverse(o) == CASE o = Less -> Greater [] o = Greater -> Less [] OTHER -> Equal

\* Ord::cmp on integers (u64 free space, u8 rebuild progress)
IntCmp(x, y) == IF x < y THEN Less ELSE IF x > y THEN Greater ELSE Equal

\* Ord::cmp on bool: false < true
BoolCmp(x, y) == IF x = y THEN Equal ELSE IF y THEN Less ELSE Greater

\* ------------------------------------------------------------------------
\* Bounds of the model
\* ------------------------------------------------------------------------
MaxSpace == 4       \* pool free space and request sizes range over 0..MaxSpace
MaxSize == 2        \* replica / nexus / volume sizes range over 0..MaxSize
MaxProgress == 2    \* rebuild progress ranges over 0..MaxProgress
MaxVersion == 2     \* a reported resource carries one of the values 1..MaxVersion
NumReaders == 2     \* reader threads of the state cache
EdgeWidth == 5      \* u16 arguments are taken within EdgeWidth of 0, of
                    \* MAX_CONTROLLER_ID and of u16::MAX

Nodes == {"node-1", "node-2", "node-3"}

SchedIdle ==
    /\ request = Null /\ a = Null /\ b = Null /\ c = Null
    /\ kept = FALSE /\ applied = {} /\ ord = Null

CacheIdle ==
    /\ nexuses = Null /\ pools = Null /\ replicas = Null
    /\ lock = Null /\ writer = Null /\ readers = Null /\ latest = Null

RangeIdle == range = Null

RpcIdle == rpc = Null

PipeIdle == pipe = Null

ApiIdle == RpcIdle /\ PipeIdle

\* ResourceFilter::filter: retain the items for which the predicate holds.
\* The trait only declares it; retention is what its implementors do.
FilterStage(name, passes) ==
    /\ name \notin applied
    /\ kept' = (kept /\ passes)
    /\ applied' = applied \cup {name}
    /\ UNCHANGED <<request, a, b, c, ord>>

\* ========================================================================
\* 4.2 Node and pool selection (new replica placement)
\* ========================================================================
PoolStatus == {"Unknown", "Online", "Degraded", "Faulted"}

\* PoolItem: a pool joined with its node.
PoolNodes == {"node-1", "node-2"}

PoolItems ==
    [node : PoolNodes, node_online : BOOLEAN, free_space : 0..MaxSpace, state : PoolStatus]

\* GetSuitablePoolsContext: requested size, topology and the nodes in use
\* by the volume (registry.specs.get_volume_data_nodes(&request.uuid)).
PoolRequests ==
    [size : 0..MaxSpace, allowed_nodes : SUBSET PoolNodes, used_nodes : SUBSET PoolNodes]

NodeFilters_online(req, item) == item.node_online

NodeFilters_allowed(req, item) ==
    req.allowed_nodes = {} \/ item.node \in req.allowed_nodes

\* variant without anti-affinity: every node passes
NodeFilters_unused_any(req, item) == TRUE

NodeFilters_unused(req, item) == item.node \notin req.used_nodes

\* variant admitting a pool whose free space equals the requested size
PoolFilters_free_space_ge(req, item) == item.free_space >= req.size

PoolFilters_free_space(req, item) == item.free_space > req.size

PoolFilters_usable(req, item) == item.state # "Faulted" /\ item.state # "Unknown"

InitPool ==
    /\ request \in PoolRequests
    /\ a \in PoolItems
    /\ b = Null /\ c = Null /\ ord = Null
    /\ kept = TRUE
    /\ applied = {}
    /\ CacheIdle /\ RangeIdle /\ ApiIdle

FilterNodeOnline == FilterStage("NodeFilters::online", NodeFilters_online(request, a))
FilterNodeAllowed == FilterStage("NodeFilters::allowed", NodeFilters_allowed(request, a))
FilterNodeUnused == FilterStage("NodeFilters::unused", NodeFilters_unused(request, a))
FilterPoolFreeSpace ==
    FilterStage("PoolFilters::free_space", PoolFilters_free_space(request, a))
FilterPoolUsable == FilterStage("PoolFilters::usable", PoolFilters_usable(request, a))

NextPool ==
    /\ UNCHANGED <<cacheVars, range, apiVars>>
    /\ \/ FilterNodeOnline
       \/ FilterNodeAllowed
       \/ FilterNodeUnused
       \/ FilterPoolFreeSpace
       \/ FilterPoolUsable

SpecPool == InitPool /\ [][NextPool]_vars

PoolStages == {"PoolFilters::free_space", "PoolFilters::usable"}

\* C1: pool selection (PoolFilters::free_space and PoolFilters::usable applied
\* together) retains a pool only if its free space is strictly greater than
\* the requested size and its state is neither Faulted nor Unknown; with
\* exactly these two stages applied the pool is retained if and only if so.
C1_PoolSelection ==
    LET ok == a.free_space > request.size /\ a.state \notin {"Faulted", "Unknown"}
    IN  /\ (PoolStages \subseteq applied /\ kept) => ok
        /\ applied = PoolStages => (kept <=> ok)

\* A healthy pool whose free space equals the requested size has been rejected.
C1_Witness ==
    /\ applied = PoolStages
    /\ a.free_space = request.size
    /\ a.state = "Online"
    /\ ~kept

NodeStages == {"NodeFilters::online", "NodeFilters::allowed", "NodeFilters::unused"}

\* C8: the node filters keep a pool only if its node is online, its node is
\* not among the nodes hosting a replica of the requesting volume, and the
\* allowed-node set is empty or contains the pool's node; with exactly the
\* three node filters applied the pool is kept if and only if so.
C8_NodeFilters ==
    LET ok == /\ a.node_online
              /\ a.node \notin request.used_nodes
              /\ (request.allowed_nodes = {} \/ a.node \in request.allowed_nodes)
    IN  /\ (NodeStages \subseteq applied /\ kept) => ok
        /\ applied = NodeStages => (kept <=> ok)

\* A pool on an online, allowed node that already hosts a replica of the
\* volume has been rejected by the node filters.
C8_Witness ==
    /\ applied = NodeStages
    /\ a.node_online
    /\ a.node \in request.allowed_nodes
    /\ a.node \in request.used_nodes
    /\ ~kept

\* ========================================================================
\* 4.3 / 4.4 Nexus children at creation, replicas to add to a nexus
\* ========================================================================
\* Option<T>: None is the empty set, Some(x) the singleton {x}.
None == {}
Some(x) == {x}
IsSome(o) == o # {}
Unwrap(o) == CHOOSE x \in o : TRUE

\* persisted ChildInfo of a candidate: absent, or its healthy flag
ChildInfos == {None} \cup {Some([healthy |-> h]) : h \in BOOLEAN}

\* ChildItem: replica state (node, online, size), persisted child info and
\* the free space of the replica's pool.
ChildItems ==
    [node : Nodes, online : BOOLEAN, size : 0..MaxSize, info : ChildInfos,
     free_space : 0..MaxSize]

\* item.info().as_ref().map(|i| i.healthy).unwrap_or(false)
InfoHealthy(item) == IF IsSome(item.info) THEN Unwrap(item.info).healthy ELSE FALSE

\* GetPersistedNexusChildrenCtx: nexus spec size, target node and whether a
\* persisted NexusInfo exists.
ChildRequests == [size : 0..MaxSize, target_node : Nodes, has_nexus_info : BOOLEAN]

\* variant that ignores the persisted child info
ChildInfoFilters_healthy_first_only(req, item) == ~req.has_nexus_info

ChildInfoFilters_healthy(req, item) ==
    LET first_create == ~req.has_nexus_info
    IN  first_create \/ InfoHealthy(item)

ReplicaFilters_online(req, item) == item.online

ReplicaFilters_size(req, item) == item.size >= req.size

\* variant comparing the nodes themselves rather than their locality
ChildItemSorters_sort_by_node(req, x, y) ==
    IF x.node = y.node THEN Equal
    ELSE IF x.node = req.target_node THEN Less ELSE Greater

ChildItemSorters_sort_by_locality(req, x, y) ==
    LET a_is_local == x.node = req.target_node
        b_is_local == y.node = req.target_node
    IN  CASE a_is_local /\ ~b_is_local -> Less
          [] ~a_is_local /\ b_is_local -> Greater
          [] OTHER -> Equal

\* ResourceFilter::sort / sort_ctx: the comparator ranks the candidate against
\* another item of the candidate list. A pipeline trims its list with its
\* filter stages and then ranks what is left.
SortStage(name, filters, other, result) ==
    /\ kept
    /\ filters \subseteq applied
    /\ name \notin applied
    /\ b' = other
    /\ ord' = result
    /\ applied' = applied \cup {name}
    /\ UNCHANGED <<request, a, c, kept>>

ChildStages == {"ChildInfoFilters::healthy", "ReplicaFilters::online", "ReplicaFilters::size"}

\* the creation stage does not read the pool of a candidate
CreateItems == {i \in ChildItems : i.free_space = 0}

InitChild ==
    /\ request \in ChildRequests
    /\ a \in CreateItems
    /\ b = Null /\ c = Null /\ ord = Null
    /\ kept = TRUE
    /\ applied = {}
    /\ CacheIdle /\ RangeIdle /\ ApiIdle

FilterChildHealthy ==
    FilterStage("ChildInfoFilters::healthy", ChildInfoFilters_healthy(request, a))
FilterReplicaOnline == FilterStage("ReplicaFilters::online", ReplicaFilters_online(request, a))
FilterReplicaSize == FilterStage("ReplicaFilters::size", ReplicaFilters_size(request, a))
\* the candidate list a sorter ranks: the items the filter stages retain
ChildCandidates ==
    {i \in CreateItems :
        /\ ChildInfoFilters_healthy(request, i)
        /\ ReplicaFilters_online(request, i)
        /\ ReplicaFilters_size(request, i)}

SortByLocality ==
    \E other \in ChildCandidates :
        SortStage("ChildItemSorters::sort_by_locality", ChildStages, other,
                  ChildItemSorters_sort_by_locality(request, a, other))

NextChild ==
    /\ UNCHANGED <<cacheVars, range, apiVars>>
    /\ \/ FilterChildHealthy
       \/ FilterReplicaOnline
       \/ FilterReplicaSize
       \/ SortByLocality

SpecChild == InitChild /\ [][NextChild]_vars

\* C6: a candidate passes the eligibility filters (healthy, online, size) if
\* and only if its replica is online, its size is at least the requested
\* nexus size, and either no persisted nexus info exists or the candidate's
\* own persisted child info exists and marks it healthy.
C6_ChildEligibility ==
    LET ok == /\ a.online
              /\ a.size >= request.size
              /\ \/ ~request.has_nexus_info
                 \/ (a.info # None /\ Unwrap(a.info).healthy)
    IN  ChildStages \subseteq applied => (kept <=> ok)

\* On a subsequent creation an online, large enough candidate without any
\* persisted child info has been excluded.
C6_Witness ==
    /\ ChildStages \subseteq applied
    /\ request.has_nexus_info
    /\ a.online /\ a.size >= request.size
    /\ a.info = None
    /\ ~kept

\* C7: in ChildItemSorters::sort_by_locality a candidate on the target node
\* sorts before a candidate on another node, and two candidates of the same
\* locality compare equal.
C7_Locality ==
    "ChildItemSorters::sort_by_locality" \in applied =>
        LET la == a.node = request.target_node
            lb == b.node = request.target_node
        IN  /\ (la /\ ~lb) => ord = Less
            /\ (~la /\ lb) => ord = Greater
            /\ (la = lb) => ord = Equal

\* A local candidate has been ranked before a remote one that differs from it
\* in everything else.
C7_Witness ==
    /\ "ChildItemSorters::sort_by_locality" \in applied
    /\ a.node = request.target_node /\ b.node # request.target_node
    /\ a.size < b.size
    /\ ord = Less

\* ------------------------------------------------------------------------
\* 4.4 Adding a replica to an existing nexus
\* ------------------------------------------------------------------------
\* VolumeReplicasForNexusCtx: the volume spec's size and the nexus spec's node
AddRequests == [vol_size : 0..MaxSize, nexus_node : Nodes]

AddReplicaFilters_online(req, item) == item.online

AddReplicaFilters_size(req, item) == item.size >= req.vol_size

\* variant whose health tie-break looks at the first item only
AddReplicaSorters_sort_first_health(req, x, y) ==
    LET a_is_local == x.node = req.nexus_node
        b_is_local == y.node = req.nexus_node
        a_healthy == IF IsSome(x.info) THEN Unwrap(x.info).healthy ELSE FALSE
    IN  CASE a_is_local /\ ~b_is_local -> Less
          [] ~a_is_local /\ b_is_local -> Greater
          [] OTHER ->
                CASE a_healthy -> Less
                  [] OTHER -> IntCmp(x.free_space, y.free_space)

AddReplicaSorters_sort(req, x, y) ==
    LET a_is_local == x.node = req.nexus_node
        b_is_local == y.node = req.nexus_node
        a_healthy == InfoHealthy(x)
        b_healthy == InfoHealthy(y)
    IN  CASE a_is_local /\ ~b_is_local -> Less
          [] ~a_is_local /\ b_is_local -> Greater
          [] OTHER ->
                CASE a_healthy /\ ~b_healthy -> Less
                  [] ~a_healthy /\ b_healthy -> Greater
                  [] OTHER -> IntCmp(x.free_space, y.free_space)

AddStages == {"AddReplicaFilters::online", "AddReplicaFilters::size"}

InitAdd ==
    /\ request \in AddRequests
    /\ a \in ChildItems
    /\ b = Null /\ c = Null /\ ord = Null
    /\ kept = TRUE
    /\ applied = {}
    /\ CacheIdle /\ RangeIdle /\ ApiIdle

FilterAddOnline ==
    FilterStage("AddReplicaFilters::online", AddReplicaFilters_online(request, a))
FilterAddSize == FilterStage("AddReplicaFilters::size", AddReplicaFilters_size(request, a))

\* the candidate list a sorter ranks: the items the filter stages retain
AddCandidates ==
    {i \in ChildItems :
        /\ AddReplicaFilters_online(request, i)
        /\ AddReplicaFilters_size(request, i)}

SortAddReplica ==
    \E other \in AddCandidates :
        SortStage("AddReplicaSorters::sort", AddStages, other,
                  AddReplicaSorters_sort(request, a, other))

NextAdd ==
    /\ UNCHANGED <<cacheVars, range, apiVars>>
    /\ \/ FilterAddOnline
       \/ FilterAddSize
       \/ SortAddReplica

SpecAdd == InitAdd /\ [][NextAdd]_vars

AddSorted == "AddReplicaSorters::sort" \in applied
AddLocal(i) == i.node = request.nexus_node
AddHealthy(i) == i.info # None /\ Unwrap(i.info).healthy

\* C2: AddReplicaSorters::sort is lexicographic: (1) local before remote,
\* whatever the health; (2) among equal locality, marked healthy before not
\* marked healthy (missing info counts as not healthy); (3) among equal
\* locality and health, the larger pool free space before the smaller.
C2_AddReplicaOrder ==
    AddSorted =>
        /\ (AddLocal(a) /\ ~AddLocal(b)) => ord = Less
        /\ (AddLocal(a) = AddLocal(b) /\ AddHealthy(a) /\ ~AddHealthy(b)) => ord = Less
        /\ (AddLocal(a) = AddLocal(b) /\ AddHealthy(a) = AddHealthy(b)
                /\ a.free_space > b.free_space) => ord = Less

\* Criteria (1) and (2) of C2 alone: the part of the ranking the code keeps.
C2_LocalityThenHealth ==
    AddSorted =>
        /\ (AddLocal(a) /\ ~AddLocal(b)) => ord = Less
        /\ (AddLocal(a) = AddLocal(b) /\ AddHealthy(a) /\ ~AddHealthy(b)) => ord = Less

\* What the code does for criterion (3): the smaller free space sorts first.
C2_SmallerFreeSpaceFirst ==
    (AddSorted /\ AddLocal(a) = AddLocal(b) /\ AddHealthy(a) = AddHealthy(b)
        /\ a.free_space > b.free_space) => ord = Greater

\* ------------------------------------------------------------------------
\* AddReplicaSorters::sort as the comparator of a sort over three candidates
\* ------------------------------------------------------------------------
\* the candidates of a volume as large as its replicas: the filter stages
\* retain the online items of that size
AddOrderRequests == {r \in AddRequests : r.vol_size = MaxSize}

AddOrderItems == {i \in ChildItems : i.online /\ i.size = MaxSize}

InitAddOrder ==
    /\ request \in AddOrderRequests
    /\ a = Null /\ b = Null /\ c = Null /\ ord = Null
    /\ kept = TRUE
    /\ applied = {}
    /\ CacheIdle /\ RangeIdle /\ ApiIdle

\* the comparator calls a sort may make on three candidates x, y, z
CompareAddReplicas ==
    /\ applied = {}
    /\ \E x \in AddOrderItems, y \in AddOrderItems, z \in AddOrderItems :
        /\ a' = x /\ b' = y /\ c' = z
        /\ ord' = [aa |-> AddReplicaSorters_sort(request, x, x),
                   ab |-> AddReplicaSorters_sort(request, x, y),
                   ba |-> AddReplicaSorters_sort(request, y, x),
                   bc |-> AddReplicaSorters_sort(request, y, z),
                   ac |-> AddReplicaSorters_sort(request, x, z)]
    /\ applied' = {"AddReplicaSorters::sort"}
    /\ UNCHANGED <<request, kept>>

NextAddOrder ==
    /\ UNCHANGED <<cacheVars, range, apiVars>>
    /\ CompareAddReplicas

SpecAddOrder == InitAddOrder /\ [][NextAddOrder]_vars

\* C12: for a fixed request AddReplicaSorters::sort is a consistent total
\* preorder: sort(a, b) is the reverse of sort(b, a), sort(a, a) is Equal,
\* and if sort(a, b) and sort(b, c) are both not Greater then sort(a, c) is
\* not Greater.
C12_AddTotalPreorder ==
    AddSorted =>
        /\ ord.ab = Reverse(ord.ba)
        /\ ord.aa = Equal
        /\ (ord.ab # Greater /\ ord.bc # Greater) => ord.ac # Greater

\* A local healthy, a local unhealthy and a remote candidate have been
\* compared: each sorts before the next and the first before the last.
C12_Witness ==
    /\ AddSorted
    /\ AddLocal(a) /\ AddHealthy(a)
    /\ AddLocal(b) /\ ~AddHealthy(b)
    /\ ~AddLocal(c)
    /\ ord.ab = Less /\ ord.bc = Less /\ ord.ac = Less /\ ord.ba = Greater

\* ========================================================================
\* 4.5 Choosing what to drop: ChildSorters and NexusChildSorter
\* ========================================================================
ChildState == {"Unknown", "Online", "Degraded", "Faulted"}

\* Option<Ordering>::None
NoOrdering == "None"

\* PartialOrd for ChildState: Online is above Degraded, Degraded above
\* Faulted, Unknown is below Online and incomparable with the others and
\* with itself.
ChildState_partial_cmp(x, y) ==
    CASE x = "Unknown" -> (IF y = "Online" THEN Less ELSE NoOrdering)
      [] x = "Online" -> (IF y = "Online" THEN Equal ELSE Greater)
      [] x = "Degraded" ->
            (CASE y = "Unknown" -> NoOrdering
               [] y = "Online" -> Less
               [] y = "Degraded" -> Equal
               [] OTHER -> Greater)
      [] OTHER ->
            (CASE y = "Unknown" -> NoOrdering
               [] y = "Faulted" -> Equal
               [] OTHER -> Less)

\* Child: the state of a nexus child, with its rebuild progress
ChildStates ==
    {None} \cup {Some([state |-> s, rebuild_progress |-> p]) :
                    s \in ChildState, p \in 0..MaxProgress}

\* ReplicaItem: whether the replica is a child of a nexus (child_spec), the
\* child's state if any, and whether the replica is shared (spec.share)
ReplicaItems == [child_spec : BOOLEAN, child_state : ChildStates, shared : BOOLEAN]

\* NexusChildItem: the replica spec backing the child, if any, and the
\* child's state if any
NexusChildItems ==
    [replica : {None} \cup {Some([shared |-> sh]) : sh \in BOOLEAN},
     child_state : ChildStates]

ChildSorters_sort_by_child(x, y) ==
    IF ~x.child_spec
    THEN (IF ~y.child_spec THEN Equal ELSE Greater)
    ELSE IF ~y.child_spec
         THEN Less
         ELSE CASE IsSome(x.child_state) /\ IsSome(y.child_state) ->
                    LET a_state == Unwrap(x.child_state)
                        b_state == Unwrap(y.child_state)
                        po == ChildState_partial_cmp(a_state.state, b_state.state)
                    IN  IF po = NoOrdering
                        THEN IntCmp(a_state.rebuild_progress, b_state.rebuild_progress)
                        ELSE po
                [] IsSome(x.child_state) /\ ~IsSome(y.child_state) -> Less
                [] ~IsSome(x.child_state) /\ IsSome(y.child_state) -> Greater
                [] OTHER -> Equal

ChildSorters_sort(x, y) ==
    LET by_child == ChildSorters_sort_by_child(x, y)
        childa_is_local == ~x.shared
        childb_is_local == ~y.shared
    IN  IF by_child = Equal
        THEN IF childa_is_local = childb_is_local THEN Equal
             ELSE IF childa_is_local THEN Greater ELSE Less
        ELSE by_child

\* Option<bool>::cmp: None < Some(false) < Some(true)
OptionBoolCmp(x, y) ==
    CASE ~IsSome(x) /\ ~IsSome(y) -> Equal
      [] ~IsSome(x) -> Less
      [] ~IsSome(y) -> Greater
      [] OTHER -> BoolCmp(Unwrap(x), Unwrap(y))

\* a.replica().map(|spec| !spec.share.shared())
NexusChildIsLocal(i) == IF IsSome(i.replica) THEN Some(~Unwrap(i.replica).shared) ELSE None

\* variant with the locality comparison reversed
NexusChildSorter_sort_local_first(x, y) ==
    CASE IsSome(x.replica) /\ ~IsSome(y.replica) -> Greater
      [] ~IsSome(x.replica) /\ IsSome(y.replica) -> Less
      [] OTHER ->
            CASE IsSome(x.child_state) /\ IsSome(y.child_state) ->
                    LET po == ChildState_partial_cmp(Unwrap(x.child_state).state,
                                                     Unwrap(y.child_state).state)
                    IN  IF po = NoOrdering \/ po = Equal
                        THEN OptionBoolCmp(NexusChildIsLocal(y), NexusChildIsLocal(x))
                        ELSE po
              [] IsSome(x.child_state) /\ ~IsSome(y.child_state) -> Greater
              [] ~IsSome(x.child_state) /\ IsSome(y.child_state) -> Less
              [] OTHER -> Equal

NexusChildSorter_sort(x, y) ==
    CASE IsSome(x.replica) /\ ~IsSome(y.replica) -> Greater
      [] ~IsSome(x.replica) /\ IsSome(y.replica) -> Less
      [] OTHER ->
            CASE IsSome(x.child_state) /\ IsSome(y.child_state) ->
                    LET po == ChildState_partial_cmp(Unwrap(x.child_state).state,
                                                     Unwrap(y.child_state).state)
                    IN  IF po = NoOrdering \/ po = Equal
                        THEN OptionBoolCmp(NexusChildIsLocal(x), NexusChildIsLocal(y))
                        ELSE po
              [] IsSome(x.child_state) /\ ~IsSome(y.child_state) -> Greater
              [] ~IsSome(x.child_state) /\ IsSome(y.child_state) -> Less
              [] OTHER -> Equal

InitRemove ==
    /\ request = Null /\ a = Null /\ b = Null /\ c = Null /\ ord = Null
    /\ kept = TRUE
    /\ applied = {}
    /\ CacheIdle /\ RangeIdle /\ ApiIdle

\* a call of the comparator by the sort of a list of removal candidates
SortReplicas ==
    \E x \in ReplicaItems, y \in ReplicaItems :
        /\ applied = {}
        /\ a' = x /\ b' = y
        /\ ord' = ChildSorters_sort(x, y)
        /\ applied' = {"ChildSorters::sort"}
        /\ UNCHANGED <<request, c, kept>>

SortNexusChildren ==
    \E x \in NexusChildItems, y \in NexusChildItems :
        /\ applied = {}
        /\ a' = x /\ b' = y
        /\ ord' = NexusChildSorter_sort(x, y)
        /\ applied' = {"NexusChildSorter::sort"}
        /\ UNCHANGED <<request, c, kept>>

NextRemove ==
    /\ UNCHANGED <<cacheVars, range, apiVars>>
    /\ \/ SortReplicas
       \/ SortNexusChildren

SpecRemove == InitRemove /\ [][NextRemove]_vars

ReplicasSorted == applied = {"ChildSorters::sort"}
NexusChildrenSorted == applied = {"NexusChildSorter::sort"}
BothAttachedWithState ==
    /\ a.child_spec /\ b.child_spec
    /\ a.child_state # None /\ b.child_state # None

\* C3: in ChildSorters::sort, of two replicas that are both attached to a
\* nexus, both have a child state, and have equal child health states, the
\* one with the lower rebuild progress sorts first.
C3_LowerProgressFirst ==
    (/\ ReplicasSorted
     /\ BothAttachedWithState
     /\ Unwrap(a.child_state).state = Unwrap(b.child_state).state
     /\ Unwrap(a.child_state).rebuild_progress < Unwrap(b.child_state).rebuild_progress)
        => ord = Less

\* What the code does: the rebuild progress decides only when the health
\* states are incomparable under ChildState's partial order.
C3_ProgressOnlyWhenIncomparable ==
    (ReplicasSorted /\ BothAttachedWithState) =>
        LET sa == Unwrap(a.child_state)
            sb == Unwrap(b.child_state)
            po == ChildState_partial_cmp(sa.state, sb.state)
        IN  /\ (po = NoOrdering /\ sa.rebuild_progress < sb.rebuild_progress) => ord = Less
            /\ (po = Equal /\ a.shared = b.shared) => ord = Equal

\* C9: in NexusChildSorter::sort a child not backed by a replica spec sorts
\* before every replica-backed child; among children of the same kind a child
\* with no child state sorts before one with a state; among two
\* replica-backed children that both have a state the health states are
\* compared and, when they are equal or incomparable, the non-local (shared)
\* child sorts before the local one.
C9_NexusChildOrder ==
    NexusChildrenSorted =>
        LET sameKind == (a.replica = None) = (b.replica = None)
            bothState == a.child_state # None /\ b.child_state # None
            po == ChildState_partial_cmp(Unwrap(a.child_state).state,
                                         Unwrap(b.child_state).state)
        IN  /\ (a.replica = None /\ b.replica # None) => ord = Less
            /\ (sameKind /\ a.child_state = None /\ b.child_state # None) => ord = Less
            /\ (a.replica # None /\ b.replica # None /\ bothState) =>
                    /\ po \in {Less, Greater} => ord = po
                    /\ (po \in {NoOrdering, Equal}
                            /\ Unwrap(a.replica).shared /\ ~Unwrap(b.replica).shared)
                        => ord = Less

\* Two replica-backed children with incomparable health states, the shared
\* one ranked before the local one although it is further rebuilt.
C9_Witness ==
    /\ NexusChildrenSorted
    /\ a.replica = Some([shared |-> TRUE]) /\ b.replica = Some([shared |-> FALSE])
    /\ a.child_state = Some([state |-> "Unknown", rebuild_progress |-> MaxProgress])
    /\ b.child_state = Some([state |-> "Unknown", rebuild_progress |-> 0])
    /\ ord = Less

\* C13: in ChildSorters::sort a replica a that is not attached to any nexus
\* (no child spec) sorts before a replica b that is attached to one: the
\* comparator returns Less for (a, b).
C13_UnattachedFirst ==
    (ReplicasSorted /\ ~a.child_spec /\ b.child_spec) => ord = Less

\* What the code does: the attached replica sorts before the unattached one.
C13_AttachedFirst ==
    ReplicasSorted =>
        /\ (~a.child_spec /\ b.child_spec) => ord = Greater
        /\ (a.child_spec /\ ~b.child_spec) => ord = Less

\* ------------------------------------------------------------------------
\* The removal comparators as the comparator of a sort over three items
\* ------------------------------------------------------------------------
InitRemoveOrder ==
    /\ request = Null /\ a = Null /\ b = Null /\ c = Null /\ ord = Null
    /\ kept = TRUE
    /\ applied = {}
    /\ CacheIdle /\ RangeIdle /\ ApiIdle

\* the comparator calls a sort may make on three replicas x, y, z
CompareReplicas ==
    /\ applied = {}
    /\ \E x \in ReplicaItems, y \in ReplicaItems, z \in ReplicaItems :
        /\ a' = x /\ b' = y /\ c' = z
        /\ ord' = [ab |-> ChildSorters_sort(x, y),
                   ba |-> ChildSorters_sort(y, x),
                   bc |-> ChildSorters_sort(y, z),
                   ac |-> ChildSorters_sort(x, z)]
    /\ applied' = {"ChildSorters::sort"}
    /\ UNCHANGED <<request, kept>>

\* the comparator calls a sort may make on three nexus children x, y, z
CompareNexusChildren ==
    /\ applied = {}
    /\ \E x \in NexusChildItems, y \in NexusChildItems, z \in NexusChildItems :
        /\ a' = x /\ b' = y /\ c' = z
        /\ ord' = [ab |-> NexusChildSorter_sort(x, y),
                   ba |-> NexusChildSorter_sort(y, x),
                   bc |-> NexusChildSorter_sort(y, z),
                   ac |-> NexusChildSorter_sort(x, z)]
    /\ applied' = {"NexusChildSorter::sort"}
    /\ UNCHANGED <<request, kept>>

NextRemoveOrder ==
    /\ UNCHANGED <<cacheVars, range, apiVars>>
    /\ \/ CompareReplicas
       \/ CompareNexusChildren

SpecRemoveOrder == InitRemoveOrder /\ [][NextRemoveOrder]_vars

\* the comparator results of the last sort are those of an ordering
OrdAntisymmetric == ord.ab = Reverse(ord.ba)
OrdTransitive == (ord.ab # Greater /\ ord.bc # Greater) => ord.ac # Greater

\* C14: both removal comparators (ChildSorters::sort and
\* NexusChildSorter::sort) define a total, deterministic ordering of any
\* list: cmp(a, b) is the reverse of cmp(b, a) and the relation is
\* transitive, for every combination of child states, including incomparable
\* ones and items with and without a child state.
C14_RemovalTotalOrder ==
    applied # {} => (OrdAntisymmetric /\ OrdTransitive)

\* The parts of C14 per comparator.
C14_ReplicasAntisymmetric == ReplicasSorted => OrdAntisymmetric
C14_ReplicasTransitive == ReplicasSorted => OrdTransitive
C14_NexusChildrenAntisymmetric == NexusChildrenSorted => OrdAntisymmetric
C14_NexusChildrenTransitive == NexusChildrenSorted => OrdTransitive

\* ========================================================================
\* 4.6 Resource state cache (ResourceStates behind an RwLock)
\* ========================================================================
Classes == {"nexuses", "pools", "replicas"}

IdsOf(k) ==
    CASE k = "nexuses" -> {"nexus-1"}
      [] k = "pools" -> {"pool-1", "pool-2"}
      [] OTHER -> {"replica-1"}

\* a resource as reported by a node (Nexus, Pool, Replica): its id and the
\* rest of its fields, abstracted to a value
ItemsOf(k) == [id : IdsOf(k), value : 1..MaxVersion]

\* the Vec<Nexus> / Vec<Pool> / Vec<Replica> of one node report: each
\* resource at most once
ListsOfClass(k) ==
    {l \in UNION {[1..n -> ItemsOf(k)] : n \in 0..Cardinality(IdsOf(k))} :
        \A i \in DOMAIN l, j \in DOMAIN l : l[i].id = l[j].id => i = j}

Lists == [k \in Classes |-> ListsOfClass(k)]

ListsOf(k) == Lists[k]

Readers == 1..NumReaders

\* NexusState / PoolState / ReplicaState built from the reported resource
ToState(k, item) == [class |-> k, inner |-> item]

\* ResourceMap: id -> state
EmptyMap == <<>>

ResourceMap_insert(map, id, state) ==
    [i \in DOMAIN map \cup {id} |-> IF i = id THEN state ELSE map[i]]

RECURSIVE ResourceMap_populate(_, _, _)
ResourceMap_populate(k, map, list) ==
    IF list = <<>> THEN map
    ELSE ResourceMap_populate(k, ResourceMap_insert(map, Head(list).id, ToState(k, Head(list))),
                              Tail(list))

ResourceMap_get(map, id) == IF id \in DOMAIN map THEN Some(map[id]) ELSE None

\* to_vec followed by cloned_inner_states; the order of the vector is the
\* map's iteration order, so the result is taken as a collection
ResourceMap_to_vec(map) == {map[i] : i \in DOMAIN map}

MapOf(k) == CASE k = "nexuses" -> nexuses [] k = "pools" -> pools [] OTHER -> replicas

SetMap(k, map) ==
    /\ nexuses' = IF k = "nexuses" THEN map ELSE nexuses
    /\ pools' = IF k = "pools" THEN map ELSE pools
    /\ replicas' = IF k = "replicas" THEN map ELSE replicas

Clear(k) == [do |-> "clear", class |-> k]
Populate(k) == [do |-> "populate", class |-> k]

\* the statements of each mutator, in program order
Steps_update_nexuses == <<Clear("nexuses"), Populate("nexuses")>>

\* variant of update_pools that populates without clearing
Steps_update_pools_no_clear == <<Populate("pools")>>

Steps_update_pools == <<Clear("pools"), Populate("pools")>>

Steps_update_replicas == <<Clear("replicas"), Populate("replicas")>>

Steps_update == Steps_update_replicas \o Steps_update_pools \o Steps_update_nexuses

Steps_clear_all == <<Clear("nexuses"), Clear("pools"), Clear("replicas")>>

NoArgs == [k \in Classes |-> <<>>]

WriterIdle == [op |-> "idle", todo |-> <<>>, args |-> NoArgs, dropped |-> {}]

InitCache ==
    /\ nexuses = EmptyMap /\ pools = EmptyMap /\ replicas = EmptyMap
    /\ lock = [writer |-> FALSE, readers |-> {}]
    /\ writer = WriterIdle
    /\ readers = [r \in Readers |-> [pc |-> "idle", call |-> Null, result |-> Null]]
    /\ latest = NoArgs
    /\ SchedIdle /\ RangeIdle /\ ApiIdle

\* variant of a lock that admits readers beside the writer
CanReadAlways(l) == TRUE

\* RwLock::read admits a reader while no writer holds the lock
CanRead(l) == ~l.writer

\* RwLock::write admits the writer while nobody holds the lock
CanWrite(l) == ~l.writer /\ l.readers = {}

\* the ids a call removes: cached before it, absent from what it installs
Dropped(updated, args) ==
    {<<k, id>> \in UNION {{k} \X IdsOf(k) : k \in updated} :
        /\ id \in DOMAIN MapOf(k)
        /\ \A i \in DOMAIN args[k] : args[k][i].id # id}

\* the writer thread is outside any call and the write lock is free
WriterMayCall == CanWrite(lock) /\ writer.op = "idle"

\* the writer takes the write lock and enters a mutator (&mut self)
WriterCall(op, steps, updated, args) ==
    /\ lock' = [lock EXCEPT !.writer = TRUE]
    /\ writer' = [op |-> op, todo |-> steps, args |-> args,
                  dropped |-> Dropped(updated, args)]
    /\ latest' = [k \in Classes |-> IF k \in updated THEN args[k] ELSE latest[k]]
    /\ UNCHANGED <<nexuses, pools, replicas, readers>>

Call_update_nexuses ==
    /\ WriterMayCall
    /\ \E l \in ListsOf("nexuses") :
        WriterCall("update_nexuses", Steps_update_nexuses, {"nexuses"},
                   [NoArgs EXCEPT !["nexuses"] = l])

Call_update_pools ==
    /\ WriterMayCall
    /\ \E l \in ListsOf("pools") :
        WriterCall("update_pools", Steps_update_pools, {"pools"},
                   [NoArgs EXCEPT !["pools"] = l])

Call_update_replicas ==
    /\ WriterMayCall
    /\ \E l \in ListsOf("replicas") :
        WriterCall("update_replicas", Steps_update_replicas, {"replicas"},
                   [NoArgs EXCEPT !["replicas"] = l])

Call_update ==
    /\ WriterMayCall
    /\ \E p \in ListsOf("pools"), r \in ListsOf("replicas"), n \in ListsOf("nexuses") :
        WriterCall("update", Steps_update, Classes,
                   [k \in Classes |-> CASE k = "pools" -> p [] k = "replicas" -> r [] OTHER -> n])

Call_clear_all == WriterMayCall /\ WriterCall("clear_all", Steps_clear_all, Classes, NoArgs)

\* the next statement of the mutator the writer is in
WriterClear ==
    /\ writer.todo # <<>>
    /\ Head(writer.todo).do = "clear"
    /\ SetMap(Head(writer.todo).class, EmptyMap)
    /\ writer' = [writer EXCEPT !.todo = Tail(@)]
    /\ UNCHANGED <<lock, readers, latest>>

WriterPopulate ==
    /\ writer.todo # <<>>
    /\ Head(writer.todo).do = "populate"
    /\ LET k == Head(writer.todo).class
       IN  SetMap(k, ResourceMap_populate(k, MapOf(k), writer.args[k]))
    /\ writer' = [writer EXCEPT !.todo = Tail(@)]
    /\ UNCHANGED <<lock, readers, latest>>

\* the mutator returns and the write guard is dropped
WriterReturn ==
    /\ writer.op # "idle"
    /\ writer.todo = <<>>
    /\ writer' = [writer EXCEPT !.op = "idle", !.args = NoArgs]
    /\ lock' = [lock EXCEPT !.writer = FALSE]
    /\ UNCHANGED <<nexuses, pools, replicas, readers, latest>>

\* the accessors: get_*_states() and get_*_state(id)
ReadCalls ==
    {[fn |-> "get_states", class |-> k, id |-> Null] : k \in Classes}
        \cup UNION {{[fn |-> "get_state", class |-> k, id |-> i] : i \in IdsOf(k)} : k \in Classes}

get_states(k) == ResourceMap_to_vec(MapOf(k))

get_state(k, id) == ResourceMap_get(MapOf(k), id)

\* a reader takes the read lock (&self)
ReaderLock(r) ==
    /\ readers[r].pc = "idle"
    /\ CanRead(lock)
    /\ lock' = [lock EXCEPT !.readers = @ \cup {r}]
    /\ readers' = [readers EXCEPT ![r].pc = "locked"]
    /\ UNCHANGED <<nexuses, pools, replicas, writer, latest>>

\* the reader runs an accessor, which returns clones of what the map holds
ReaderRead(r) ==
    /\ readers[r].pc = "locked"
    /\ \E call \in ReadCalls :
        readers' = [readers EXCEPT ![r] =
            [pc |-> "got", call |-> call,
             result |-> IF call.fn = "get_states" THEN get_states(call.class)
                        ELSE get_state(call.class, call.id)]]
    /\ UNCHANGED <<nexuses, pools, replicas, lock, writer, latest>>

\* the read guard is dropped
ReaderUnlock(r) ==
    /\ readers[r].pc = "got"
    /\ lock' = [lock EXCEPT !.readers = @ \ {r}]
    /\ readers' = [readers EXCEPT ![r] = [pc |-> "idle", call |-> Null, result |-> Null]]
    /\ UNCHANGED <<nexuses, pools, replicas, writer, latest>>

NextCache ==
    /\ UNCHANGED <<schedVars, range, apiVars>>
    /\ \/ Call_update_nexuses
       \/ Call_update_pools
       \/ Call_update_replicas
       \/ Call_update
       \/ Call_clear_all
       \/ WriterClear
       \/ WriterPopulate
       \/ WriterReturn
       \/ \E r \in Readers : ReaderLock(r)
       \/ \E r \in Readers : ReaderRead(r)
       \/ \E r \in Readers : ReaderUnlock(r)

SpecCache == InitCache /\ [][NextCache]_vars

\* the states of a reported list, as the accessors return them
Snapshot(k, list) == {ToState(k, list[i]) : i \in DOMAIN list}

SnapshotOf(k, list, id) ==
    IF \E i \in DOMAIN list : list[i].id = id
    THEN Some(ToState(k, list[CHOOSE i \in DOMAIN list : list[i].id = id]))
    ELSE None

\* C4: readers under the read lock interleaved with a writer under the write
\* lock (clear followed by populate): every read returns exactly one whole
\* snapshot, the list of the most recent update of its class, which is the
\* one before a concurrent update if the reader got the lock first and the
\* new one otherwise; no reader observes the intermediate empty map or a
\* mixture, and no reader holds a result while a mutator is running.
C4_ReadsSeeWholeSnapshot ==
    \A r \in Readers :
        readers[r].pc = "got" =>
            LET call == readers[r].call
            IN  /\ ~lock.writer /\ writer.op = "idle"
                /\ readers[r].result =
                        IF call.fn = "get_states"
                        THEN Snapshot(call.class, latest[call.class])
                        ELSE SnapshotOf(call.class, latest[call.class], call.id)

\* All readers hold the read lock together after an update of the pools; one
\* of them has read both pools of that update.
C4_Witness ==
    /\ lock.readers = Readers
    /\ \E r \in Readers :
        /\ readers[r].pc = "got"
        /\ readers[r].call = [fn |-> "get_states", class |-> "pools", id |-> Null]
        /\ Cardinality(readers[r].result) = 2
    /\ Len(latest["pools"]) = 2
    /\ latest["pools"][1].id = "pool-2"

\* C5: after any sequence of update_nexuses / update_pools / update_replicas
\* / update / clear_all calls, each class holds exactly the list of its most
\* recent update (nothing after clear_all or before any update): no entry of
\* an earlier snapshot survives, get_*_state(id) is None for an id absent
\* from that list, and the classes a call does not update are untouched.
C5_OnlyLatestSnapshot ==
    writer.op = "idle" =>
        \A k \in Classes :
            /\ get_states(k) = Snapshot(k, latest[k])
            /\ \A id \in IdsOf(k) :
                (\A i \in DOMAIN latest[k] : latest[k][i].id # id) => get_state(k, id) = None

\* update_pools has returned after dropping a pool that was cached before,
\* and the nexus and the replica cached before it are still there.
C5_Witness ==
    /\ writer.op = "idle"
    /\ writer.dropped = {<<"pools", "pool-1">>}
    /\ DOMAIN pools = {"pool-2"}
    /\ DOMAIN nexuses # {} /\ DOMAIN replicas # {}

\* ========================================================================
\* NvmfControllerIdRange
\* ========================================================================
U16Max == 65535
MIN_CONTROLLER_ID == 1
MAX_CONTROLLER_ID == 65519

U16 == 0..U16Max

\* the u16 values the constructor is called with
U16Samples ==
    (0..EdgeWidth)
        \cup ((MAX_CONTROLLER_ID - EdgeWidth)..(MAX_CONTROLLER_ID + EdgeWidth))
        \cup ((U16Max - EdgeWidth)..U16Max)

\* RangeInclusive<u16>::contains on controller_id_range()
controller_id_range_contains(v) == MIN_CONTROLLER_ID <= v /\ v <= MAX_CONTROLLER_ID

\* Ok(NvmfControllerIdRange(start ..= end))
OkRange(start, end) == [tag |-> "Ok", min |-> start, max |-> end]

\* Err(ReplyError::invalid_argument(ResourceKind::Nexus, "nvmf_controller_id_range", ..))
ErrInvalidArgument ==
    [tag |-> "Err", kind |-> "InvalidArgument", resource |-> "Nexus",
     source |-> "nvmf_controller_id_range"]

\* the process aborts (a panic)
Panicked == [tag |-> "Panic"]

\* variant accepting start = end
NvmfControllerIdRange_new_le(start, end) ==
    IF /\ controller_id_range_contains(start)
       /\ controller_id_range_contains(end)
       /\ start <= end
    THEN OkRange(start, end)
    ELSE ErrInvalidArgument

NvmfControllerIdRange_new(start, end) ==
    IF /\ controller_id_range_contains(start)
       /\ controller_id_range_contains(end)
       /\ start < end
    THEN OkRange(start, end)
    ELSE ErrInvalidArgument

NvmfControllerIdRange_default == OkRange(MIN_CONTROLLER_ID, MAX_CONTROLLER_ID)

\* u16::min(rand + min, max): the u16 addition overflows for rand = u16::MAX,
\* which panics in a build with overflow checks and wraps in one without
NvmfControllerIdRange_random_min(rand) ==
    LET sum == rand + MIN_CONTROLLER_ID
        u16_min(x, y) == IF x < y THEN x ELSE y
    IN  IF sum > U16Max
        THEN {Panicked, OkRange(u16_min(sum % (U16Max + 1), MAX_CONTROLLER_ID), MAX_CONTROLLER_ID)}
        ELSE {OkRange(u16_min(sum, MAX_CONTROLLER_ID), MAX_CONTROLLER_ID)}

InitRange ==
    /\ range = [fn |-> "none"]
    /\ SchedIdle /\ CacheIdle /\ ApiIdle

CallNew ==
    /\ range.fn = "none"
    /\ \E start \in U16Samples, end \in U16Samples :
        range' = [fn |-> "new", start |-> start, end |-> end,
                  result |-> NvmfControllerIdRange_new(start, end)]

CallDefault ==
    /\ range.fn = "none"
    /\ range' = [fn |-> "default", result |-> NvmfControllerIdRange_default]

CallRandomMin ==
    /\ range.fn = "none"
    /\ \E rand \in U16 :
        \E res \in NvmfControllerIdRange_random_min(rand) :
            range' = [fn |-> "random_min", rand |-> rand, result |-> res]

NextRange ==
    /\ UNCHANGED <<schedVars, cacheVars, apiVars>>
    /\ \/ CallNew
       \/ CallDefault
       \/ CallRandomMin

SpecRange == InitRange /\ [][NextRange]_vars

\* C10: NvmfControllerIdRange::new(start, end) returns Ok with exactly the
\* range start..=end if and only if 1 <= start < end <= 0xffef; for every
\* other pair it returns an invalid-argument error tagged with the Nexus
\* resource kind, and it neither panics nor clamps.
C10_NewValidates ==
    range.fn = "new" =>
        IF 1 <= range.start /\ range.start < range.end /\ range.end <= 65519
        THEN range.result = [tag |-> "Ok", min |-> range.start, max |-> range.end]
        ELSE /\ range.result.tag = "Err"
             /\ range.result.kind = "InvalidArgument"
             /\ range.result.resource = "Nexus"

\* new(5, 3) has failed validation.
C10_Witness ==
    /\ range.fn = "new"
    /\ range.start = 5 /\ range.end = 3
    /\ range.result.tag = "Err"

\* new(1, 0xffef) has succeeded with the whole range.
C10_WitnessFullRange ==
    /\ range.fn = "new"
    /\ range.start = 1 /\ range.end = 65519
    /\ range.result = [tag |-> "Ok", min |-> 1, max |-> 65519]

\* a constructed range has min < max and both bounds within 1..=0xffef
ValidRange(r) ==
    /\ r.min < r.max
    /\ 1 <= r.min /\ r.min <= 65519
    /\ 1 <= r.max /\ r.max <= 65519

\* C15: every NvmfControllerIdRange that can be constructed, by new (on
\* success), by default, or by random_min for every random u16 draw (the
\* addition of the minimum being 16-bit), has min < max with both bounds
\* inside 1..=0xffef, and construction never panics.
C15_RangeInvariant ==
    range.fn # "none" =>
        /\ range.result.tag # "Panic"
        /\ range.result.tag = "Ok" => ValidRange(range.result)

\* The part of C15 that new and default satisfy.
C15_NewAndDefaultValid ==
    range.fn \in {"new", "default"} =>
        /\ range.result.tag # "Panic"
        /\ range.result.tag = "Ok" => ValidRange(range.result)

\* What random_min does: a valid range for draws up to 0xffed, the range
\* 0xffef..=0xffef for draws from 0xffee to 0xfffe, and for the draw 0xffff
\* a panic or the range 0..=0xffef.
C15_RandomMinOutcome ==
    range.fn = "random_min" =>
        CASE range.rand <= 65517 ->
                range.result = [tag |-> "Ok", min |-> range.rand + 1, max |-> 65519]
          [] range.rand <= 65534 ->
                range.result = [tag |-> "Ok", min |-> 65519, max |-> 65519]
          [] OTHER ->
                \/ range.result.tag = "Panic"
                \/ range.result = [tag |-> "Ok", min |-> 0, max |-> 65519]

\* ========================================================================
\* Node client: pool operations (io_engine/v0/pool.rs)
\* ========================================================================
MaxDisks == 2

Disks == {"/dev/sda", "/dev/sdb"}

\* CreatePool.disks
DiskLists == UNION {[1..n -> Disks] : n \in 0..MaxDisks}

\* request.disks.first().cloned().unwrap_or_default()
FirstDiskOrDefault(disks) == IF Len(disks) = 0 THEN "" ELSE Head(disks)

\* format!("Failed to create a BDEV '{}'", disk)
BdevMessage(disk) == "Failed to create a BDEV '" \o disk \o "'"

\* tonic::Status: the codes and messages an io-engine replies with
StatusCodes == {"Internal", "NotFound", "Unavailable", "InvalidArgument"}

StatusMessages ==
    {BdevMessage(d) : d \in Disks \cup {""}} \cup {"Failed to create a BDEV", "no such pool"}

Status(code, message) == [code |-> code, message |-> message]

\* the outcome of the awaited gRPC call
GrpcReplies ==
    {[tag |-> "Ok"]} \cup
    {[tag |-> "Err", status |-> Status(code, message)] :
        code \in StatusCodes, message \in StatusMessages}

\* SvcError::GrpcRequestError { resource, request, source }
GrpcRequestError(resource, op, source) ==
    [tag |-> "Err", error |-> "GrpcRequestError",
     resource |-> resource, request |-> op, source |-> source]

OkResult == [tag |-> "Ok"]

PoolListApi_list_pools(reply) ==
    IF reply.tag = "Err"
    THEN GrpcRequestError("Pool", "list_pools", reply.status)
    ELSE OkResult

\* variant translating every Internal error, whatever its message
PoolApi_create_pool_any_internal(req, reply) ==
    CASE reply.tag = "Ok" -> OkResult
      [] reply.tag = "Err" /\ reply.status.code = "Internal" ->
            GrpcRequestError("Pool", "create_pool",
                             Status("NotFound", reply.status.message))
      [] OTHER -> GrpcRequestError("Pool", "create_pool", reply.status)

PoolApi_create_pool(req, reply) ==
    CASE reply.tag = "Ok" -> OkResult
      [] /\ reply.tag = "Err"
         /\ reply.status.code = "Internal"
         /\ reply.status.message = BdevMessage(FirstDiskOrDefault(req.disks)) ->
            GrpcRequestError("Pool", "create_pool",
                             Status("NotFound", reply.status.message))
      [] OTHER -> GrpcRequestError("Pool", "create_pool", reply.status)

PoolApi_destroy_pool(reply) ==
    IF reply.tag = "Err"
    THEN GrpcRequestError("Pool", "destroy_pool", reply.status)
    ELSE OkResult

\* no gRPC call is made
PoolApi_import_pool ==
    GrpcRequestError("Pool", "import_pool", Status("Unimplemented", ""))

NoRequest == [disks |-> <<>>]

NoReply == [tag |-> "None"]

InitPoolApi ==
    /\ rpc = [fn |-> "none"]
    /\ pipe = Null
    /\ SchedIdle /\ CacheIdle /\ RangeIdle

CallListPools ==
    /\ rpc.fn = "none"
    /\ \E reply \in GrpcReplies :
        rpc' = [fn |-> "list_pools", request |-> NoRequest, reply |-> reply,
                result |-> PoolListApi_list_pools(reply)]

CallCreatePool ==
    /\ rpc.fn = "none"
    /\ \E disks \in DiskLists, reply \in GrpcReplies :
        LET create == [disks |-> disks]
        IN  rpc' = [fn |-> "create_pool", request |-> create, reply |-> reply,
                    result |-> PoolApi_create_pool(create, reply)]

CallDestroyPool ==
    /\ rpc.fn = "none"
    /\ \E reply \in GrpcReplies :
        rpc' = [fn |-> "destroy_pool", request |-> NoRequest, reply |-> reply,
                result |-> PoolApi_destroy_pool(reply)]

CallImportPool ==
    /\ rpc.fn = "none"
    /\ rpc' = [fn |-> "import_pool", request |-> NoRequest, reply |-> NoReply,
               result |-> PoolApi_import_pool]

NextPoolApi ==
    /\ UNCHANGED <<schedVars, cacheVars, range, pipe>>
    /\ \/ CallListPools
       \/ CallCreatePool
       \/ CallDestroyPool
       \/ CallImportPool

SpecPoolApi == InitPoolApi /\ [][NextPoolApi]_vars

\* the BDEV-creation failure of the io-engine for the first disk of the
\* request of the last call
RpcIsBdevFailure ==
    /\ rpc.reply.tag = "Err"
    /\ rpc.reply.status.code = "Internal"
    /\ LET first == IF rpc.request.disks = <<>> THEN "" ELSE rpc.request.disks[1]
       IN  rpc.reply.status.message = "Failed to create a BDEV '" \o first \o "'"

\* C11: every failure of a pool operation of the node client (list_pools,
\* create_pool, destroy_pool, import_pool) is returned as a GrpcRequestError
\* with resource kind Pool and the name of the failed operation; create_pool
\* reports an Internal error whose message is exactly "Failed to create a
\* BDEV '<first disk of the request>'" with NotFound status and the same
\* message, every other error keeps its original status; import_pool always
\* fails with Unimplemented status.
C11_PoolErrors ==
    rpc.fn # "none" =>
        /\ (rpc.reply.tag = "Err" \/ rpc.fn = "import_pool") <=> rpc.result.tag = "Err"
        /\ rpc.result.tag = "Err" =>
            /\ rpc.result.error = "GrpcRequestError"
            /\ rpc.result.resource = "Pool"
            /\ rpc.result.request = rpc.fn
        /\ rpc.fn = "import_pool" => rpc.result.source.code = "Unimplemented"
        /\ (rpc.fn = "create_pool" /\ RpcIsBdevFailure) =>
            rpc.result.source =
                [code |-> "NotFound", message |-> rpc.reply.status.message]
        /\ (rpc.reply.tag = "Err" /\ ~(rpc.fn = "create_pool" /\ RpcIsBdevFailure)) =>
            rpc.result.source = rpc.reply.status

\* create_pool for disks /dev/sdb, /dev/sda has failed to create the BDEV of
\* /dev/sdb and reported NotFound.
C11_Witness ==
    /\ rpc.fn = "create_pool"
    /\ rpc.request.disks = <<"/dev/sdb", "/dev/sda">>
    /\ rpc.reply.tag = "Err"
    /\ rpc.reply.status = [code |-> "Internal", message |-> "Failed to create a BDEV '/dev/sdb'"]
    /\ rpc.result.tag = "Err"
    /\ rpc.result.source.code = "NotFound"

\* ========================================================================
\* 4.1 The pipeline object: trait ResourceFilter
\* ========================================================================
MaxLen == 2

\* Self::Item, abstracted to the number a predicate or comparator reads
PipeItems == 0..MaxSize

\* the candidate list of a pipeline, the empty one included
PipeLists == UNION {[1..n -> PipeItems] : n \in 0..MaxLen}

\* an implementor of the trait: whether it provides its own sort_ctx and
\* group_by or inherits the trait's default bodies
Implementors == [sort_ctx : BOOLEAN, group_by : BOOLEAN]

\* FnMut(&Request, &Item) -> bool, as the set of items it accepts
Predicates == SUBSET PipeItems

\* FnMut(&Item, &Item) -> Ordering
Comparators == {"ascending", "descending"}

Compare(cmp, x, y) == IF cmp = "ascending" THEN IntCmp(x, y) ELSE IntCmp(y, x)

RECURSIVE InsertSorted(_, _, _)
InsertSorted(cmp, x, list) ==
    IF list = <<>> THEN <<x>>
    ELSE IF Compare(cmp, x, Head(list)) # Greater
         THEN <<x>> \o list
         ELSE <<Head(list)>> \o InsertSorted(cmp, x, Tail(list))

\* a stable sort by the comparator
RECURSIVE SortList(_, _)
SortList(cmp, list) ==
    IF list = <<>> THEN <<>>
    ELSE InsertSorted(cmp, Head(list), SortList(cmp, Tail(list)))

\* unimplemented!()
PipePanic(self, op) == [self EXCEPT !.status = "panicked", !.last = op]

\* fn filter(self, filter) -> Self: declared by the trait; its implementors
\* retain the items the predicate accepts
ResourceFilter_filter(self, pred) ==
    [self EXCEPT !.list = SelectSeq(self.list, LAMBDA i : i \in pred), !.last = "filter"]

\* fn sort(self, sort) -> Self: declared by the trait; its implementors sort
\* the list by the comparator
ResourceFilter_sort(self, cmp) ==
    [self EXCEPT !.list = SortList(cmp, self.list), !.last = "sort"]

\* fn sort_ctx(self, _sort) -> Self: the default body is unimplemented!()
ResourceFilter_sort_ctx(self, cmp) ==
    IF self.impl.sort_ctx
    THEN [self EXCEPT !.list = SortList(cmp, self.list), !.last = "sort_ctx"]
    ELSE PipePanic(self, "sort_ctx")

\* fn(Self) -> Self passed to filter_iter: a sub-pipeline of a filter and a sort
PipeStages == [pred : Predicates, cmp : Comparators]

ApplyStage(stage, self) ==
    ResourceFilter_sort(ResourceFilter_filter(self, stage.pred), stage.cmp)

\* fn filter_iter(self, filter: fn(Self) -> Self) -> Self { filter(self) }
ResourceFilter_filter_iter(self, stage) ==
    [ApplyStage(stage, self) EXCEPT !.last = "filter_iter"]

\* async fn filter_iter_async(self, filter) -> Self { filter(self).await }
ResourceFilter_filter_iter_async(self, stage) ==
    [ApplyStage(stage, self) EXCEPT !.last = "filter_iter_async"]

\* fn collect(self) -> Vec<Self::Item>: declared by the trait; its
\* implementors hand out the list
ResourceFilter_collect(self) ==
    [self EXCEPT !.status = "collected", !.last = "collect"]

\* fn group_by(self, _group) -> HashMap<K, V>: the default body is
\* unimplemented!()
ResourceFilter_group_by(self) ==
    IF self.impl.group_by
    THEN [self EXCEPT !.status = "grouped", !.last = "group_by"]
    ELSE PipePanic(self, "group_by")

InitPipeline ==
    /\ pipe \in [impl : Implementors, list : PipeLists, status : {"running"}, last : {"builder"}]
    /\ rpc = Null
    /\ SchedIdle /\ CacheIdle /\ RangeIdle

\* every operation takes self by value: a pipeline that was collected,
\* grouped or unwound by a panic takes no further operation
PipeRunning == pipe.status = "running"

CallFilter ==
    /\ PipeRunning
    /\ \E pred \in Predicates : pipe' = ResourceFilter_filter(pipe, pred)

CallSort ==
    /\ PipeRunning
    /\ \E cmp \in Comparators : pipe' = ResourceFilter_sort(pipe, cmp)

CallSortCtx ==
    /\ PipeRunning
    /\ \E cmp \in Comparators : pipe' = ResourceFilter_sort_ctx(pipe, cmp)

CallFilterIter ==
    /\ PipeRunning
    /\ \E stage \in PipeStages : pipe' = ResourceFilter_filter_iter(pipe, stage)

CallFilterIterAsync ==
    /\ PipeRunning
    /\ \E stage \in PipeStages : pipe' = ResourceFilter_filter_iter_async(pipe, stage)

CallCollect ==
    /\ PipeRunning
    /\ pipe' = ResourceFilter_collect(pipe)

CallGroupBy ==
    /\ PipeRunning
    /\ pipe' = ResourceFilter_group_by(pipe)

NextPipeline ==
    /\ UNCHANGED <<schedVars, cacheVars, range, rpc>>
    /\ \/ CallFilter
       \/ CallSort
       \/ CallSortCtx
       \/ CallFilterIter
       \/ CallFilterIterAsync
       \/ CallCollect
       \/ CallGroupBy

SpecPipeline == InitPipeline /\ [][NextPipeline]_vars

\* C16: no operation of the filter/sort pipeline (filter, sort, sort_ctx,
\* filter_iter, filter_iter_async, collect, group_by) ever fails or panics,
\* for any implementor of the trait and any candidate list, the empty one
\* included.
C16_NeverPanics == pipe.status # "panicked"

\* What the code does: a pipeline panics exactly in sort_ctx or group_by of
\* an implementor that inherits the trait's default body of that method; an
\* empty list makes no operation fail.
C16_PanicsOnlyInDefaults ==
    pipe.status = "panicked" <=>
        \/ pipe.last = "sort_ctx" /\ ~pipe.impl.sort_ctx
        \/ pipe.last = "group_by" /\ ~pipe.impl.group_by

====
